---- MODULE Spec2Model ----
(***************************************************************************)
(* Flexible Assembly System simulator: the Warehouse (Warehouse.cpp), the  *)
(* AGV worker threads (AGV.h, AGV.cpp) and the AssemblyStation thread      *)
(* (AssemblyStation.h, AssemblyStation.cpp), modelled as interleaved       *)
(* threads.  A function whose whole body runs under one std::lock_guard is *)
(* one atomic action guarded by the mutex being free; code that reads an   *)
(* std::atomic outside a lock, sleeps, or waits on a condition variable is *)
(* split at those points.                                                  *)
(***************************************************************************)
EXTENDS Integers, Sequences, FiniteSets, TLC

(* ------------------------------ bounds -------------------------------- *)
\* largest quantity passed to add_component / asked for one component
MaxQty == 2
\* add_component is called while the total added to a component stays within this
MaxTotalAdded == 3
\* add_finished_product calls made by the warehouse client threads
MaxFinished == 1

(* ------------------------------ universe ------------------------------ *)
ComponentIds == {"A", "B"}
\* std::map iterates its keys in ascending order
CompOrder == <<"A", "B">>
ProductIds == {"P1", "P2"}
\* threads that call the Warehouse concurrently with each other
Clients == {"c1", "c2"}
NoThread == "none"

EmptyMap == [x \in {} |-> 0]
\* every std::map<std::string,int> that a caller can pass as `required`
Requests == UNION {[S -> 1..MaxQty] : S \in SUBSET ComponentIds}

VARIABLES
    components,         \* Warehouse::components  (component id -> quantity)
    finished_products,  \* Warehouse::finished_products (product id -> count)
    inventory_mutex,    \* Warehouse::inventory_mutex: the thread holding it
    wh_pc,              \* position of each client thread inside reserve_components
    wh_call,            \* the `required` argument of the call in progress
    wh_result,          \* the value the call in progress is about to return
    wh_snap,            \* history: inventory when the call took the lock
    g_added,            \* history: total quantity added per component
    g_reserved,         \* history: total quantity of reservations that returned true
    g_finished          \* history: add_finished_product calls by client threads

whVars == <<components, finished_products, inventory_mutex, wh_pc, wh_call,
            wh_result, wh_snap, g_added, g_reserved, g_finished>>

VARIABLES
    state,              \* AGV::state
    current_task,       \* AGV::current_task
    running,            \* AGV::running (std::atomic<bool>)
    state_mutex,        \* AGV::state_mutex: held by the AGV's own thread or free
    task_waiting,       \* AGV::task_cv: TRUE while the AGV thread is in its wait set
    agv_pc,             \* position of the AGV thread in AGV::run
    stop_pc,            \* position of a caller inside AGV::stop
    total_operations,   \* AGV::total_operations
    busy_time_minutes,  \* AGV::busy_time_minutes
    stop_returned,      \* history: some call of stop() has returned
    held_at_stop,       \* history: the AGV held a task when stop() cleared running
    last_assign,        \* history: outcome of the latest assign_task call
    g_tasks             \* history: number of assign_task calls that took effect

agvVars == <<state, current_task, running, state_mutex, task_waiting, agv_pc,
             stop_pc, total_operations, busy_time_minutes, stop_returned,
             held_at_stop, last_assign, g_tasks>>

VARIABLES
    agv_fleet,          \* *AssemblyStation::agv_fleet, the vector of AGVs
    products,           \* AssemblyStation::products: "null" or the catalog
    order_queue,        \* AssemblyStation::order_queue
    queue_mutex,        \* AssemblyStation::queue_mutex: held by the station thread or free
    order_waiting,      \* AssemblyStation::order_cv: TRUE while the station thread waits
    st_running,         \* AssemblyStation::running (std::atomic<bool>)
    st_pc,              \* position of the station thread in process_orders
    st_stop_pc,         \* position of a caller inside AssemblyStation::stop
    order,              \* the local `order` of process_orders
    agv_index,          \* the local agv_index of request_components
    bom_pos,            \* position of the BOM loop of request_components
    scan_i,             \* the local i of the fleet scan
    total_busy_time_minutes,  \* AssemblyStation::total_busy_time_minutes
    orders_completed,   \* AssemblyStation::orders_completed
    order_phase,        \* history: order number -> phase of the order
    dispatched,         \* history: AGVs given a task for the order in hand
    assigned_components,\* history: BOM components given to an AGV for the order in hand
    st_stop_returned,   \* history: some call of AssemblyStation::stop has returned
    g_orders,           \* history: number of add_order calls
    last_dispatched,    \* history: fleet index of the AGV of the last dispatch, -1 if none
    current_sim_time_minutes, \* AssemblyStation::current_sim_time_minutes (std::atomic<int>)
    completed_order,    \* history: the local Order as lines 69-70 last marked it
    mon_pc              \* the statistics getter an observer thread is inside, or "idle"

stVars == <<agv_fleet, products, order_queue, queue_mutex, order_waiting, st_running,
            st_pc, st_stop_pc, order, agv_index, bom_pos, scan_i,
            total_busy_time_minutes, orders_completed, order_phase, dispatched,
            assigned_components, st_stop_returned, g_orders, last_dispatched,
            current_sim_time_minutes, completed_order, mon_pc>>

(* ------------------------------ Warehouse ----------------------------- *)
\* quantity stored under id, 0 when there is no entry (std::map::operator[]
\* value-initialises a missing entry)
Get(m, id) == IF id \in DOMAIN m THEN m[id] ELSE 0

Put(m, id, v) == [x \in DOMAIN m \cup {id} |-> IF x = id THEN v ELSE m[x]]

\* faulty variant: the constructor returns without waiting for the mutex
lock_guard_nolock(m) == TRUE

\* std::lock_guard<std::mutex> lock(inventory_mutex): proceeds when the mutex is free
lock_guard(m) == m = NoThread

\* faulty variant: the comparison rejects a quantity equal to the requested one
ShortStrict(comps, req, id) == id \notin DOMAIN comps \/ comps[id] <= req[id]

\* the condition of the availability loop for one entry of `required`
Short(comps, req, id) == id \notin DOMAIN comps \/ comps[id] < req[id]

\* faulty variant: the availability loop tests only that the entry exists
CheckExistsOnly(comps, req) ==
    [ok |-> \A id \in DOMAIN req : id \in DOMAIN comps, comps |-> comps]

\* faulty variant: one loop that deducts each entry as soon as it has been checked,
\* so a later short entry leaves the earlier ones deducted
RECURSIVE CheckAndDeduct(_, _, _)
CheckAndDeduct(comps, req, i) ==
    IF i > Len(CompOrder) THEN [ok |-> TRUE, comps |-> comps]
    ELSE LET id == CompOrder[i] IN
         IF id \notin DOMAIN req THEN CheckAndDeduct(comps, req, i + 1)
         ELSE IF Short(comps, req, id) THEN [ok |-> FALSE, comps |-> comps]
         ELSE CheckAndDeduct(Put(comps, id, comps[id] - req[id]), req, i + 1)

CheckDeductInOneLoop(comps, req) ==
    [ok |-> CheckAndDeduct(comps, req, 1).ok,
     comps |-> IF CheckAndDeduct(comps, req, 1).ok THEN comps
               ELSE CheckAndDeduct(comps, req, 1).comps]

\* "Check availability first": the first loop of reserve_components (and the
\* loop of has_components).  find() never inserts, so the map is returned as is.
CheckAvailability(comps, req) ==
    [ok |-> \A id \in DOMAIN req : ~Short(comps, req, id), comps |-> comps]

\* Warehouse::has_components: false at the first entry that is missing or holds
\* less than the required quantity, true when the loop ends
has_components(comps, req) ==
    ~ \E id \in DOMAIN req : id \notin DOMAIN comps \/ comps[id] < req[id]

\* "Reserve components": components[req.first] -= req.second for every entry
Deduct(comps, req) ==
    [x \in DOMAIN comps \cup DOMAIN req |->
        Get(comps, x) - (IF x \in DOMAIN req THEN req[x] ELSE 0)]

\* a client thread calls reserve_components(required)
ReserveCall(t, req) ==
    /\ wh_pc[t] = "idle"
    /\ wh_pc' = [wh_pc EXCEPT ![t] = "lock"]
    /\ wh_call' = [wh_call EXCEPT ![t] = req]
    /\ UNCHANGED <<components, finished_products, inventory_mutex, wh_result,
                   wh_snap, g_added, g_reserved, g_finished>>

\* line 49: the lock_guard is constructed
ReserveLock(t) ==
    /\ wh_pc[t] = "lock"
    /\ lock_guard(inventory_mutex)
    /\ inventory_mutex' = t
    /\ wh_pc' = [wh_pc EXCEPT ![t] = "check"]
    /\ wh_snap' = [wh_snap EXCEPT ![t] = <<components, finished_products>>]
    /\ UNCHANGED <<components, finished_products, wh_call, wh_result,
                   g_added, g_reserved, g_finished>>

\* lines 52-57: the availability loop; a short component returns false
ReserveCheck(t) ==
    /\ wh_pc[t] = "check"
    /\ LET r == CheckAvailability(components, wh_call[t]) IN
        /\ components' = r.comps
        /\ wh_pc' = [wh_pc EXCEPT ![t] = IF r.ok THEN "deduct" ELSE "unlock"]
        /\ wh_result' = [wh_result EXCEPT ![t] = IF r.ok THEN "pending" ELSE "false"]
    /\ UNCHANGED <<finished_products, inventory_mutex, wh_call, wh_snap,
                   g_added, g_reserved, g_finished>>

\* lines 60-64: the deduction loop, then return true
ReserveDeduct(t) ==
    /\ wh_pc[t] = "deduct"
    /\ components' = Deduct(components, wh_call[t])
    /\ g_reserved' = [c \in ComponentIds |-> g_reserved[c] + Get(wh_call[t], c)]
    /\ wh_pc' = [wh_pc EXCEPT ![t] = "unlock"]
    /\ wh_result' = [wh_result EXCEPT ![t] = "true"]
    /\ UNCHANGED <<finished_products, inventory_mutex, wh_call, wh_snap,
                   g_added, g_finished>>

\* the lock_guard is destroyed and the call returns
ReserveReturn(t) ==
    /\ wh_pc[t] = "unlock"
    /\ inventory_mutex' = NoThread
    /\ wh_pc' = [wh_pc EXCEPT ![t] = "idle"]
    /\ wh_call' = [wh_call EXCEPT ![t] = EmptyMap]
    /\ wh_result' = [wh_result EXCEPT ![t] = "none"]
    /\ wh_snap' = [wh_snap EXCEPT ![t] = <<EmptyMap, EmptyMap>>]
    /\ UNCHANGED <<components, finished_products, g_added, g_reserved, g_finished>>

\* Warehouse::add_component(component_id, quantity), the whole body under the lock
add_component(id, q) ==
    /\ lock_guard(inventory_mutex)
    /\ g_added[id] + q <= MaxTotalAdded
    /\ components' = Put(components, id, Get(components, id) + q)
    /\ g_added' = [g_added EXCEPT ![id] = @ + q]
    /\ UNCHANGED <<finished_products, inventory_mutex, wh_pc, wh_call, wh_result,
                   wh_snap, g_reserved, g_finished>>

\* the map update of Warehouse::add_finished_product: finished_products[product_id]++
FinishedIncrement(fp, p) == Put(fp, p, Get(fp, p) + 1)

\* Warehouse::add_finished_product(product_id) called by a client thread
add_finished_product(p) ==
    /\ lock_guard(inventory_mutex)
    /\ g_finished < MaxFinished
    /\ finished_products' = FinishedIncrement(finished_products, p)
    /\ g_finished' = g_finished + 1
    /\ UNCHANGED <<components, inventory_mutex, wh_pc, wh_call, wh_result,
                   wh_snap, g_added, g_reserved>>

InitWarehouse ==
    /\ components = EmptyMap
    /\ finished_products = EmptyMap
    /\ inventory_mutex = NoThread
    /\ wh_pc = [t \in Clients |-> "idle"]
    /\ wh_call = [t \in Clients |-> EmptyMap]
    /\ wh_result = [t \in Clients |-> "none"]
    /\ wh_snap = [t \in Clients |-> <<EmptyMap, EmptyMap>>]
    /\ g_added = [c \in ComponentIds |-> 0]
    /\ g_reserved = [c \in ComponentIds |-> 0]
    /\ g_finished = 0

\* the warehouse after add_component has loaded `stock` into it
WarehouseLoaded(stock) ==
    /\ components = stock
    /\ finished_products = EmptyMap
    /\ inventory_mutex = NoThread
    /\ wh_pc = [t \in Clients |-> "idle"]
    /\ wh_call = [t \in Clients |-> EmptyMap]
    /\ wh_result = [t \in Clients |-> "none"]
    /\ wh_snap = [t \in Clients |-> <<EmptyMap, EmptyMap>>]
    /\ g_added = [c \in ComponentIds |-> Get(stock, c)]
    /\ g_reserved = [c \in ComponentIds |-> 0]
    /\ g_finished = 0

(* --------------------------------- AGV -------------------------------- *)
\* bound: assign_task calls made by the threads that call an AGV directly
MaxTasks == 2

AGVs == {1, 2}
\* the AGV that the direct callers of SpecAGV use
DirectAGVs == {1}
Destinations == {"ASSEMBLY_STATION", "WAREHOUSE"}

\* AGVTask(): quantity(0), is_complete(false), empty strings
EmptyTask ==
    [component_id |-> "", quantity |-> 0, destination |-> "", is_complete |-> FALSE]

\* timing parameters set by the constructor AGV::AGV
travel_time_warehouse_minutes == 2
travel_time_station_minutes == 3
picking_time_minutes == 1
dropping_time_minutes == 1

\* AGV::transition_to
transition_to(a, new_state) == state' = [state EXCEPT ![a] = new_state]

\* the predicate of task_cv.wait in AGV::run
TaskWaitPredicate(a) == ~running[a] \/ current_task[a].component_id # ""

\* AGV::start: running = true, then the thread is created
AGVStart(a) ==
    /\ agv_pc[a] = "not_started"
    /\ running' = [running EXCEPT ![a] = TRUE]
    /\ agv_pc' = [agv_pc EXCEPT ![a] = "loop"]
    /\ UNCHANGED <<state, current_task, state_mutex, task_waiting, stop_pc,
                   total_operations, busy_time_minutes, stop_returned,
                   held_at_stop, last_assign, g_tasks>>

\* line 41: while (running)
AGVLoopTest(a) ==
    /\ agv_pc[a] = "loop"
    /\ agv_pc' = [agv_pc EXCEPT ![a] = IF running[a] THEN "lock" ELSE "exited"]
    /\ UNCHANGED <<state, current_task, running, state_mutex, task_waiting, stop_pc,
                   total_operations, busy_time_minutes, stop_returned,
                   held_at_stop, last_assign, g_tasks>>

\* lines 42-47: the unique_lock is taken and wait() evaluates its predicate;
\* the thread keeps the mutex whether the predicate holds or not
AGVLockAndTest(a) ==
    /\ agv_pc[a] = "lock"
    /\ lock_guard(state_mutex[a])
    /\ state_mutex' = [state_mutex EXCEPT ![a] = "agv"]
    /\ agv_pc' = [agv_pc EXCEPT ![a] = IF TaskWaitPredicate(a) THEN "woken" ELSE "cv_block"]
    /\ UNCHANGED <<state, current_task, running, task_waiting, stop_pc,
                   total_operations, busy_time_minutes, stop_returned,
                   held_at_stop, last_assign, g_tasks>>

\* inside wait(): the mutex is released and the thread joins the wait set, atomically
AGVBlock(a) ==
    /\ agv_pc[a] = "cv_block"
    /\ state_mutex' = [state_mutex EXCEPT ![a] = NoThread]
    /\ task_waiting' = [task_waiting EXCEPT ![a] = TRUE]
    /\ agv_pc' = [agv_pc EXCEPT ![a] = "blocked"]
    /\ UNCHANGED <<state, current_task, running, stop_pc,
                   total_operations, busy_time_minutes, stop_returned,
                   held_at_stop, last_assign, g_tasks>>

\* a condition variable may wake a waiter that nobody notified
AGVSpuriousWake(a) ==
    /\ agv_pc[a] = "blocked"
    /\ task_waiting[a]
    /\ task_waiting' = [task_waiting EXCEPT ![a] = FALSE]
    /\ UNCHANGED <<state, current_task, running, state_mutex, agv_pc, stop_pc,
                   total_operations, busy_time_minutes, stop_returned,
                   held_at_stop, last_assign, g_tasks>>

\* a woken waiter takes the mutex again and evaluates the predicate again
AGVWake(a) ==
    /\ agv_pc[a] = "blocked"
    /\ ~task_waiting[a]
    /\ lock_guard(state_mutex[a])
    /\ state_mutex' = [state_mutex EXCEPT ![a] = "agv"]
    /\ agv_pc' = [agv_pc EXCEPT ![a] = IF TaskWaitPredicate(a) THEN "woken" ELSE "cv_block"]
    /\ UNCHANGED <<state, current_task, running, task_waiting, stop_pc,
                   total_operations, busy_time_minutes, stop_returned,
                   held_at_stop, last_assign, g_tasks>>

\* lines 49-60: break when stopped, continue without a task, else TO_WAREHOUSE;
\* the mutex is released on each of the three paths
AGVAfterWait(a) ==
    /\ agv_pc[a] = "woken"
    /\ state_mutex' = [state_mutex EXCEPT ![a] = NoThread]
    /\ IF ~running[a]
         THEN /\ agv_pc' = [agv_pc EXCEPT ![a] = "exited"]
              /\ UNCHANGED state
         ELSE IF current_task[a].component_id = ""
         THEN /\ agv_pc' = [agv_pc EXCEPT ![a] = "loop"]
              /\ UNCHANGED state
         ELSE /\ agv_pc' = [agv_pc EXCEPT ![a] = "to_warehouse"]
              /\ transition_to(a, "TO_WAREHOUSE")
    /\ UNCHANGED <<current_task, running, task_waiting, stop_pc,
                   total_operations, busy_time_minutes, stop_returned,
                   held_at_stop, last_assign, g_tasks>>

\* one leg of the cycle: the sleep ends, lock.lock(); transition_to(next); lock.unlock()
AGVLeg(a, from_pc, to_pc, new_state) ==
    /\ agv_pc[a] = from_pc
    /\ lock_guard(state_mutex[a])
    /\ transition_to(a, new_state)
    /\ agv_pc' = [agv_pc EXCEPT ![a] = to_pc]
    /\ UNCHANGED <<current_task, running, state_mutex, task_waiting, stop_pc,
                   total_operations, busy_time_minutes, stop_returned,
                   held_at_stop, last_assign, g_tasks>>

\* lines 65-67
AGVPicking(a) == AGVLeg(a, "to_warehouse", "picking", "PICKING")
\* lines 72-74
AGVToStation(a) == AGVLeg(a, "picking", "to_station", "TO_STATION")
\* lines 79-81
AGVDropping(a) == AGVLeg(a, "to_station", "dropping", "DROPPING")

\* the state AGV::run enters when the task is complete (line 95)
StateAfterDropping == "IDLE"

\* lines 86-96: statistics, task reset, final transition
AGVComplete(a) ==
    /\ agv_pc[a] = "dropping"
    /\ lock_guard(state_mutex[a])
    /\ busy_time_minutes' = [busy_time_minutes EXCEPT ![a] =
            @ + (travel_time_warehouse_minutes + picking_time_minutes
                 + travel_time_station_minutes + dropping_time_minutes)]
    /\ total_operations' = [total_operations EXCEPT ![a] = @ + 1]
    /\ current_task' = [current_task EXCEPT ![a] = EmptyTask]
    /\ transition_to(a, StateAfterDropping)
    /\ agv_pc' = [agv_pc EXCEPT ![a] = "loop"]
    /\ UNCHANGED <<running, state_mutex, task_waiting, stop_pc, stop_returned,
                   held_at_stop, last_assign, g_tasks>>

\* faulty variant: the test of assign_task without its second conjunct
AssignAcceptsIdleOnly(s, task) == s = "IDLE"

\* line 108 (and the return value of is_idle, line 119)
AssignAccepts(s, task) == s = "IDLE" /\ task.component_id = ""

\* AGV::is_idle
is_idle(a) == state[a] = "IDLE" /\ current_task[a].component_id = ""

\* faulty variant: the task is stored but task_cv.notify_one() is never called
assign_task_no_notify(a, component_id, quantity, destination) ==
    /\ lock_guard(state_mutex[a])
    /\ IF AssignAccepts(state[a], current_task[a])
         THEN /\ current_task' = [current_task EXCEPT ![a] =
                    [component_id |-> component_id, quantity |-> quantity,
                     destination |-> destination, is_complete |-> FALSE]]
              /\ last_assign' = [last_assign EXCEPT ![a] = "accepted"]
              /\ g_tasks' = g_tasks + 1
              /\ UNCHANGED task_waiting
         ELSE /\ last_assign' = [last_assign EXCEPT ![a] = "ignored"]
              /\ UNCHANGED <<current_task, task_waiting, g_tasks>>
    /\ UNCHANGED <<state, running, state_mutex, agv_pc, stop_pc, total_operations,
                   busy_time_minutes, stop_returned, held_at_stop>>

\* AGV::assign_task, the whole body under the lock_guard
assign_task(a, component_id, quantity, destination) ==
    /\ lock_guard(state_mutex[a])
    /\ IF AssignAccepts(state[a], current_task[a])
         THEN /\ current_task' = [current_task EXCEPT ![a] =
                    [component_id |-> component_id, quantity |-> quantity,
                     destination |-> destination, is_complete |-> FALSE]]
              \* notify_one: the only possible waiter is the AGV thread
              /\ task_waiting' = [task_waiting EXCEPT ![a] = FALSE]
              /\ last_assign' = [last_assign EXCEPT ![a] = "accepted"]
              /\ g_tasks' = g_tasks + 1
         ELSE /\ last_assign' = [last_assign EXCEPT ![a] = "ignored"]
              /\ UNCHANGED <<current_task, task_waiting, g_tasks>>
    /\ UNCHANGED <<state, running, state_mutex, agv_pc, stop_pc, total_operations,
                   busy_time_minutes, stop_returned, held_at_stop>>

\* AGV::stop, line 36: running = false (no mutex is taken)
AGVStopFlag(a) ==
    /\ stop_pc[a] = "idle"
    /\ running' = [running EXCEPT ![a] = FALSE]
    /\ stop_pc' = [stop_pc EXCEPT ![a] = "notify"]
    /\ held_at_stop' = [held_at_stop EXCEPT ![a] =
            IF running[a] THEN current_task[a].component_id # "" ELSE @]
    /\ UNCHANGED <<state, current_task, state_mutex, task_waiting, agv_pc,
                   total_operations, busy_time_minutes, stop_returned,
                   last_assign, g_tasks>>

\* AGV::stop, line 37: task_cv.notify_all(), then stop() returns
AGVStopNotify(a) ==
    /\ stop_pc[a] = "notify"
    /\ task_waiting' = [task_waiting EXCEPT ![a] = FALSE]
    /\ stop_pc' = [stop_pc EXCEPT ![a] = "idle"]
    /\ stop_returned' = [stop_returned EXCEPT ![a] = TRUE]
    /\ UNCHANGED <<state, current_task, running, state_mutex, agv_pc,
                   total_operations, busy_time_minutes, held_at_stop,
                   last_assign, g_tasks>>

\* AGV::AGV
InitAGV ==
    /\ state = [a \in AGVs |-> "IDLE"]
    /\ current_task = [a \in AGVs |-> EmptyTask]
    /\ running = [a \in AGVs |-> FALSE]
    /\ state_mutex = [a \in AGVs |-> NoThread]
    /\ task_waiting = [a \in AGVs |-> FALSE]
    /\ agv_pc = [a \in AGVs |-> "not_started"]
    /\ stop_pc = [a \in AGVs |-> "idle"]
    /\ total_operations = [a \in AGVs |-> 0]
    /\ busy_time_minutes = [a \in AGVs |-> 0]
    /\ stop_returned = [a \in AGVs |-> FALSE]
    /\ held_at_stop = [a \in AGVs |-> FALSE]
    /\ last_assign = [a \in AGVs |-> "none"]
    /\ g_tasks = 0

(* --------------------------- AssemblyStation -------------------------- *)
\* bound: largest value the driver passes to set_simulation_time
MaxClock == 2
\* bound: orders handed to add_order
MaxOrders == 2

\* AssemblyStation::setup_time_minutes, set by the constructor
setup_time_minutes == 5
\* the base time calculate_operation_time falls back to
default_base_time_minutes == 30

\* the product catalog handed to set_products (Product: bom, base_assembly_time_minutes)
Catalog ==
    [P1 |-> [bom |-> [A |-> 1, B |-> 1], base_assembly_time_minutes |-> 20],
     P2 |-> [bom |-> [A |-> 2], base_assembly_time_minutes |-> 30]]
\* product ids carried by orders; "PX" is in no catalog
OrderProducts == {"P1", "P2", "PX"}
\* the inventory loaded with add_component before the threads are started
InitialStock == [A |-> 3, B |-> 1]

NoOrder == [id |-> 0, product_id |-> "", release_time_minutes |-> 0]
\* Order(): completion_time_minutes(-1); nothing marked complete yet
NoCompletion ==
    [id |-> 0, product_id |-> "", release_time_minutes |-> 0,
     completion_time_minutes |-> -1]

stLocals == <<order, agv_index, bom_pos, scan_i>>
stQueue == <<order_queue, queue_mutex, order_waiting>>
stStop == <<st_running, st_stop_pc, st_stop_returned>>
stStats == <<total_busy_time_minutes, orders_completed, completed_order>>
stEnv == <<agv_fleet, products, current_sim_time_minutes, mon_pc>>

\* the keys of a bill of materials in the order std::map iterates them
BomKeys(bom) == SelectSeq(CompOrder, LAMBDA c : c \in DOMAIN bom)

\* products && products->find(product_id) != products->end()
ProductKnown(product_id) == products # "null" /\ product_id \in DOMAIN Catalog

\* faulty variant: the base assembly time alone, the setup time left out
calculate_operation_time_no_setup(product_id) ==
    IF ~ProductKnown(product_id)
      THEN default_base_time_minutes
      ELSE Catalog[product_id].base_assembly_time_minutes

\* AssemblyStation::calculate_operation_time
calculate_operation_time(product_id) ==
    IF ~ProductKnown(product_id)
      THEN default_base_time_minutes + setup_time_minutes
      ELSE Catalog[product_id].base_assembly_time_minutes + setup_time_minutes

\* Warehouse::reserve_components as one call: [ok, comps]
reserve_components(comps, req) ==
    LET r == CheckAvailability(comps, req) IN
    IF r.ok THEN [ok |-> TRUE, comps |-> Deduct(r.comps, req)]
    ELSE [ok |-> FALSE, comps |-> r.comps]

\* the predicate of order_cv.wait in process_orders
OrderWaitPredicate == ~st_running \/ order_queue # <<>>

\* AssemblyStation::set_products
set_products ==
    /\ products = "null"
    /\ products' = "catalog"
    /\ UNCHANGED <<agv_fleet, current_sim_time_minutes, mon_pc, stQueue, stStop, st_pc, stLocals, stStats, order_phase,
                   dispatched, assigned_components, g_orders, last_dispatched, whVars, agvVars>>

\* AssemblyStation::add_order, the whole body under the lock_guard
add_order(product_id, release_time_minutes) ==
    /\ g_orders < MaxOrders
    /\ lock_guard(queue_mutex)
    /\ order_queue' = Append(order_queue,
                             [id |-> g_orders + 1, product_id |-> product_id,
                              release_time_minutes |-> release_time_minutes])
    /\ order_waiting' = FALSE
    /\ g_orders' = g_orders + 1
    /\ UNCHANGED last_dispatched
    /\ order_phase' = [order_phase EXCEPT ![g_orders + 1] = "queued"]
    /\ UNCHANGED <<stEnv, queue_mutex, stStop, st_pc, stLocals, stStats,
                   dispatched, assigned_components, whVars, agvVars>>

\* AssemblyStation::start
StationStart ==
    /\ st_pc = "not_started"
    /\ st_running' = TRUE
    /\ st_pc' = "loop"
    /\ UNCHANGED <<stEnv, stQueue, st_stop_pc, st_stop_returned, stLocals, stStats,
                   order_phase, dispatched, assigned_components, g_orders, last_dispatched,
                   whVars, agvVars>>

\* AssemblyStation::stop, line 38: running = false (no mutex is taken)
StationStopFlag ==
    /\ st_stop_pc = "idle"
    /\ st_running' = FALSE
    /\ st_stop_pc' = "notify"
    /\ UNCHANGED <<stEnv, stQueue, st_stop_returned, st_pc, stLocals, stStats,
                   order_phase, dispatched, assigned_components, g_orders, last_dispatched,
                   whVars, agvVars>>

\* AssemblyStation::stop, line 39: order_cv.notify_all(), then stop() returns
StationStopNotify ==
    /\ st_stop_pc = "notify"
    /\ order_waiting' = FALSE
    /\ st_stop_pc' = "idle"
    /\ st_stop_returned' = TRUE
    /\ UNCHANGED <<stEnv, order_queue, queue_mutex, st_running, st_pc, stLocals,
                   stStats, order_phase, dispatched, assigned_components, g_orders, last_dispatched,
                   whVars, agvVars>>

\* line 43: while (running)
StationLoopTest ==
    /\ st_pc = "loop"
    /\ st_pc' = IF st_running THEN "lock" ELSE "exited"
    /\ UNCHANGED <<stEnv, stQueue, stStop, stLocals, stStats, order_phase,
                   dispatched, assigned_components, g_orders, last_dispatched, whVars, agvVars>>

\* lines 44-49: the unique_lock is taken and wait() evaluates its predicate
StationLockAndTest ==
    /\ st_pc = "lock"
    /\ lock_guard(queue_mutex)
    /\ queue_mutex' = "station"
    /\ st_pc' = IF OrderWaitPredicate THEN "woken" ELSE "cv_block"
    /\ UNCHANGED <<stEnv, order_queue, order_waiting, stStop, stLocals, stStats,
                   order_phase, dispatched, assigned_components, g_orders, last_dispatched,
                   whVars, agvVars>>

\* inside wait(): the mutex is released and the thread joins the wait set, atomically
StationBlock ==
    /\ st_pc = "cv_block"
    /\ queue_mutex' = NoThread
    /\ order_waiting' = TRUE
    /\ st_pc' = "blocked"
    /\ UNCHANGED <<stEnv, order_queue, stStop, stLocals, stStats, order_phase,
                   dispatched, assigned_components, g_orders, last_dispatched, whVars, agvVars>>

\* a condition variable may wake a waiter that nobody notified
StationSpuriousWake ==
    /\ st_pc = "blocked"
    /\ order_waiting
    /\ order_waiting' = FALSE
    /\ UNCHANGED <<stEnv, order_queue, queue_mutex, stStop, st_pc, stLocals, stStats,
                   order_phase, dispatched, assigned_components, g_orders, last_dispatched,
                   whVars, agvVars>>

\* a woken waiter takes the mutex again and evaluates the predicate again
StationWake ==
    /\ st_pc = "blocked"
    /\ ~order_waiting
    /\ lock_guard(queue_mutex)
    /\ queue_mutex' = "station"
    /\ st_pc' = IF OrderWaitPredicate THEN "woken" ELSE "cv_block"
    /\ UNCHANGED <<stEnv, order_queue, order_waiting, stStop, stLocals, stStats,
                   order_phase, dispatched, assigned_components, g_orders, last_dispatched,
                   whVars, agvVars>>

\* lines 51-57: break, continue, or pop the front order; the mutex is released
StationAfterWait ==
    /\ st_pc = "woken"
    /\ queue_mutex' = NoThread
    /\ IF ~st_running /\ order_queue = <<>>
         THEN /\ st_pc' = "exited"
              /\ UNCHANGED <<order_queue, order, order_phase>>
         ELSE IF order_queue = <<>>
         THEN /\ st_pc' = "loop"
              /\ UNCHANGED <<order_queue, order, order_phase>>
         ELSE /\ order' = Head(order_queue)
              /\ order_queue' = Tail(order_queue)
              /\ order_phase' = [order_phase EXCEPT ![Head(order_queue).id] = "fetching"]
              /\ st_pc' = "request"
    /\ UNCHANGED <<stEnv, order_waiting, stStop, agv_index, bom_pos, scan_i, stStats,
                   dispatched, assigned_components, g_orders, last_dispatched, whVars, agvVars>>

\* request_components returned false: the if of line 60 is skipped
Rejected ==
    /\ st_pc' = "loop"
    /\ order_phase' = [order_phase EXCEPT ![order.id] = "rejected"]
    /\ order' = NoOrder
    /\ agv_index' = 0
    /\ bom_pos' = 0
    /\ scan_i' = 0
    /\ dispatched' = {}
    /\ assigned_components' = {}

\* faulty variant: a product that is not found is taken to need no components
StationLookupNoReject ==
    /\ st_pc = "request"
    /\ st_pc' = IF ProductKnown(order.product_id) THEN "reserve" ELSE "wait_components"
    /\ UNCHANGED <<stLocals, order_phase, dispatched, assigned_components>>
    /\ UNCHANGED <<stEnv, stQueue, stStop, stStats, g_orders, last_dispatched, whVars, agvVars>>

\* lines 80-89: no catalog or unknown product returns false
StationLookup ==
    /\ st_pc = "request"
    /\ IF ProductKnown(order.product_id)
         THEN /\ st_pc' = "reserve"
              /\ UNCHANGED <<stLocals, order_phase, dispatched, assigned_components>>
         ELSE Rejected
    /\ UNCHANGED <<stEnv, stQueue, stStop, stStats, g_orders, last_dispatched, whVars, agvVars>>

\* lines 92-103: reserve the bill of materials; without a fleet go to the "rollback"
StationReserve ==
    /\ st_pc = "reserve"
    /\ lock_guard(inventory_mutex)
    /\ LET bom == Catalog[order.product_id].bom
           r == reserve_components(components, bom) IN
        /\ components' = r.comps
        /\ g_reserved' = [c \in ComponentIds |->
                            g_reserved[c] + (IF r.ok THEN Get(bom, c) ELSE 0)]
        /\ IF ~r.ok THEN Rejected
           ELSE /\ st_pc' = IF Len(agv_fleet) = 0 THEN "rollback" ELSE "probe"
                /\ agv_index' = 0
                /\ bom_pos' = IF Len(agv_fleet) = 0 THEN 0 ELSE 1
                /\ scan_i' = 0
                /\ UNCHANGED <<order, order_phase, dispatched, assigned_components>>
    /\ UNCHANGED <<stEnv, stQueue, stStop, stStats, g_orders, last_dispatched, agvVars,
                   finished_products, inventory_mutex, wh_pc, wh_call, wh_result,
                   wh_snap, g_added, g_finished>>

\* line 98-99: "Rollback - simplified" calls reserve_components again, returns false
StationRollback ==
    /\ st_pc = "rollback"
    /\ lock_guard(inventory_mutex)
    /\ LET bom == Catalog[order.product_id].bom
           r == reserve_components(components, bom) IN
        /\ components' = r.comps
        /\ g_reserved' = [c \in ComponentIds |->
                            g_reserved[c] + (IF r.ok THEN Get(bom, c) ELSE 0)]
    /\ Rejected
    /\ UNCHANGED <<stEnv, stQueue, stStop, stStats, g_orders, last_dispatched, agvVars,
                   finished_products, inventory_mutex, wh_pc, wh_call, wh_result,
                   wh_snap, g_added, g_finished>>

\* the AGV the scan looks at: (*agv_fleet)[(agv_index + i) % agv_fleet->size()]
ScannedAGV == agv_fleet[((agv_index + scan_i) % Len(agv_fleet)) + 1]

\* the BOM entry the dispatch loop is at
ScannedComponent == BomKeys(Catalog[order.product_id].bom)[bom_pos]

\* the for loop of line 104 moves to its next entry, or ends (line 122)
NextComponent ==
    IF bom_pos < Len(BomKeys(Catalog[order.product_id].bom))
      THEN /\ bom_pos' = bom_pos + 1
           /\ scan_i' = 0
           /\ st_pc' = "probe"
      ELSE /\ bom_pos' = 0
           /\ scan_i' = 0
           /\ st_pc' = "wait_components"

\* lines 107-109 and 116-118: one is_idle() call of the scan; a scan that finds
\* no idle AGV leaves the component without a task and goes on
StationProbe ==
    /\ st_pc = "probe"
    /\ lock_guard(state_mutex[ScannedAGV])
    /\ IF is_idle(ScannedAGV)
         THEN /\ st_pc' = "assign"
              /\ UNCHANGED <<bom_pos, scan_i>>
         ELSE IF scan_i + 1 < Len(agv_fleet)
         THEN /\ scan_i' = scan_i + 1
              /\ UNCHANGED <<bom_pos, st_pc>>
         ELSE NextComponent
    /\ UNCHANGED <<stEnv, stQueue, stStop, order, agv_index, stStats, order_phase,
                   dispatched, assigned_components, g_orders, last_dispatched, whVars, agvVars>>

\* lines 110-113: assign_task, assigned = true, agv_index moves past the AGV
StationAssign ==
    /\ st_pc = "assign"
    /\ assign_task(ScannedAGV, ScannedComponent,
                   Catalog[order.product_id].bom[ScannedComponent], "ASSEMBLY_STATION")
    /\ IF AssignAccepts(state[ScannedAGV], current_task[ScannedAGV])
         THEN /\ dispatched' = dispatched \cup {ScannedAGV}
              /\ assigned_components' = assigned_components \cup {ScannedComponent}
         ELSE UNCHANGED <<dispatched, assigned_components>>
    /\ agv_index' = (agv_index + scan_i + 1) % Len(agv_fleet)
    /\ last_dispatched' = (agv_index + scan_i) % Len(agv_fleet)
    /\ NextComponent
    /\ UNCHANGED <<stEnv, stQueue, stStop, order, stStats, order_phase, g_orders, whVars>>

\* faulty variant: the assembly is started and the loop goes on without waiting for it
StationAssembleDetached ==
    /\ st_pc = "wait_components"
    /\ total_busy_time_minutes' =
            total_busy_time_minutes + calculate_operation_time(order.product_id)
    /\ order_phase' = [order_phase EXCEPT ![order.id] = "processing"]
    /\ st_pc' = "loop"
    /\ UNCHANGED <<stEnv, stQueue, stStop, stLocals, orders_completed, completed_order,
                   dispatched, assigned_components, g_orders, last_dispatched, whVars, agvVars>>

\* wait_for_components (the 500 ms sleep) returns, request_components returns true,
\* lines 62-65: the operation time is added to the busy time and assembly starts
StationAssembleStart ==
    /\ st_pc = "wait_components"
    /\ total_busy_time_minutes' =
            total_busy_time_minutes + calculate_operation_time(order.product_id)
    /\ order_phase' = [order_phase EXCEPT ![order.id] = "processing"]
    /\ st_pc' = "assembling"
    /\ UNCHANGED <<stEnv, stQueue, stStop, stLocals, orders_completed, completed_order,
                   dispatched, assigned_components, g_orders, last_dispatched, whVars, agvVars>>

\* faulty variant: the completion time is the clock reading alone
completion_time_clock_only(now, operation_time) == now

\* line 70: current_sim_time_minutes + operation_time
completion_time(now, operation_time) == now + operation_time

\* lines 66-74: the assembly sleep ends, the order is marked complete and the
\* finished product is added to the warehouse
StationComplete ==
    /\ st_pc = "assembling"
    /\ lock_guard(inventory_mutex)
    /\ completed_order' =
          [id |-> order.id, product_id |-> order.product_id,
           release_time_minutes |-> order.release_time_minutes,
           completion_time_minutes |->
               completion_time(current_sim_time_minutes,
                               calculate_operation_time(order.product_id))]
    /\ orders_completed' = orders_completed + 1
    /\ finished_products' = FinishedIncrement(finished_products, order.product_id)
    /\ order_phase' = [order_phase EXCEPT ![order.id] = "completed"]
    /\ order' = NoOrder
    /\ agv_index' = 0
    /\ dispatched' = {}
    /\ assigned_components' = {}
    /\ st_pc' = "loop"
    /\ UNCHANGED <<stEnv, stQueue, stStop, bom_pos, scan_i, total_busy_time_minutes,
                   g_orders, last_dispatched, agvVars, components, inventory_mutex, wh_pc, wh_call,
                   wh_result, wh_snap, g_added, g_reserved, g_finished>>

\* AssemblyStation::AssemblyStation(wh, fleet)
InitStation ==
    /\ agv_fleet \in {<<>>, <<1, 2>>}
    /\ products = "null"
    /\ order_queue = <<>>
    /\ queue_mutex = NoThread
    /\ order_waiting = FALSE
    /\ st_running = FALSE
    /\ st_pc = "not_started"
    /\ st_stop_pc = "idle"
    /\ order = NoOrder
    /\ agv_index = 0
    /\ bom_pos = 0
    /\ scan_i = 0
    /\ total_busy_time_minutes = 0
    /\ orders_completed = 0
    /\ order_phase = [n \in 1..MaxOrders |-> "none"]
    /\ dispatched = {}
    /\ assigned_components = {}
    /\ st_stop_returned = FALSE
    /\ g_orders = 0
    /\ last_dispatched = -1
    /\ current_sim_time_minutes = 0
    /\ completed_order = NoCompletion
    /\ mon_pc = "idle"

\* AssemblyStation::set_simulation_time
set_simulation_time(minutes) ==
    /\ current_sim_time_minutes' = minutes
    /\ UNCHANGED <<agv_fleet, products, mon_pc, stQueue, stStop, st_pc, stLocals, stStats,
                   order_phase, dispatched, assigned_components, g_orders, last_dispatched, whVars, agvVars>>

\* the statistics getters of AssemblyStation.h
Getters == {"get_total_busy_time", "get_orders_completed"}

\* an observer thread enters a getter; the body takes no mutex
GetterCall(g) ==
    /\ mon_pc = "idle"
    /\ mon_pc' = g
    /\ UNCHANGED <<agv_fleet, products, current_sim_time_minutes, stQueue, stStop, st_pc,
                   stLocals, stStats, order_phase, dispatched, assigned_components,
                   g_orders, last_dispatched, whVars, agvVars>>

\* the getter reads the plain int and returns
GetterReturn ==
    /\ mon_pc # "idle"
    /\ mon_pc' = "idle"
    /\ UNCHANGED <<agv_fleet, products, current_sim_time_minutes, stQueue, stStop, st_pc,
                   stLocals, stStats, order_phase, dispatched, assigned_components,
                   g_orders, last_dispatched, whVars, agvVars>>

\* the AGVs of the fleet
Fleet == {agv_fleet[k] : k \in 1..Len(agv_fleet)}

(* ---------------------------- specifications -------------------------- *)
vars == <<whVars, agvVars, stVars>>

\* every object constructed (the station over a fleet of two), nothing loaded or started
InitConstructed == InitWarehouse /\ InitAGV /\ InitStation /\ agv_fleet = <<1, 2>>

\* the Warehouse under two concurrent client threads
NextWH ==
    \/ \E t \in Clients, req \in Requests : ReserveCall(t, req) /\ UNCHANGED <<agvVars, stVars>>
    \/ \E t \in Clients : ReserveLock(t) /\ UNCHANGED <<agvVars, stVars>>
    \/ \E t \in Clients : ReserveCheck(t) /\ UNCHANGED <<agvVars, stVars>>
    \/ \E t \in Clients : ReserveDeduct(t) /\ UNCHANGED <<agvVars, stVars>>
    \/ \E t \in Clients : ReserveReturn(t) /\ UNCHANGED <<agvVars, stVars>>
    \/ \E id \in ComponentIds, q \in 1..MaxQty :
          add_component(id, q) /\ UNCHANGED <<agvVars, stVars>>
    \/ \E p \in ProductIds : add_finished_product(p) /\ UNCHANGED <<agvVars, stVars>>

SpecWH == InitConstructed /\ [][NextWH]_vars

\* one AGV under threads that call its assign_task and stop directly
NextAGV ==
    \/ \E a \in DirectAGVs : AGVStart(a) /\ UNCHANGED <<whVars, stVars>>
    \/ \E a \in DirectAGVs : AGVLoopTest(a) /\ UNCHANGED <<whVars, stVars>>
    \/ \E a \in DirectAGVs : AGVLockAndTest(a) /\ UNCHANGED <<whVars, stVars>>
    \/ \E a \in DirectAGVs : AGVBlock(a) /\ UNCHANGED <<whVars, stVars>>
    \/ \E a \in DirectAGVs : AGVSpuriousWake(a) /\ UNCHANGED <<whVars, stVars>>
    \/ \E a \in DirectAGVs : AGVWake(a) /\ UNCHANGED <<whVars, stVars>>
    \/ \E a \in DirectAGVs : AGVAfterWait(a) /\ UNCHANGED <<whVars, stVars>>
    \/ \E a \in DirectAGVs : AGVPicking(a) /\ UNCHANGED <<whVars, stVars>>
    \/ \E a \in DirectAGVs : AGVToStation(a) /\ UNCHANGED <<whVars, stVars>>
    \/ \E a \in DirectAGVs : AGVDropping(a) /\ UNCHANGED <<whVars, stVars>>
    \/ \E a \in DirectAGVs : AGVComplete(a) /\ UNCHANGED <<whVars, stVars>>
    \/ \E a \in DirectAGVs : AGVStopFlag(a) /\ UNCHANGED <<whVars, stVars>>
    \/ \E a \in DirectAGVs : AGVStopNotify(a) /\ UNCHANGED <<whVars, stVars>>
    \/ \E a \in DirectAGVs, c \in ComponentIds, q \in 1..MaxQty, d \in Destinations :
          /\ g_tasks < MaxTasks
          /\ assign_task(a, c, q, d)
          /\ UNCHANGED <<whVars, stVars>>

SpecAGV == InitConstructed /\ [][NextAGV]_vars

\* the steps of the std::thread that AGV::start creates (AGV::run); a wakeup
\* that nobody sent is not among them: the scheduler owes the thread its own
\* steps, not spurious wakeups
AGVThreadStep(a) ==
    /\ \/ AGVLoopTest(a) \/ AGVLockAndTest(a) \/ AGVBlock(a) \/ AGVWake(a)
       \/ AGVAfterWait(a) \/ AGVPicking(a) \/ AGVToStation(a) \/ AGVDropping(a)
       \/ AGVComplete(a)
    /\ UNCHANGED <<whVars, stVars>>

\* SpecAGV under a scheduler that lets a runnable AGV thread run eventually
FairSpecAGV ==
    /\ InitConstructed
    /\ [][NextAGV]_vars
    /\ \A a \in DirectAGVs : WF_vars(AGVThreadStep(a))

\* the whole cell: inventory loaded, then the station thread and the fleet's threads
Init ==
    /\ InitAGV
    /\ InitStation
    /\ WarehouseLoaded(InitialStock)

Next ==
    \/ \E a \in Fleet : AGVStart(a) /\ UNCHANGED <<whVars, stVars>>
    \/ \E a \in Fleet : AGVLoopTest(a) /\ UNCHANGED <<whVars, stVars>>
    \/ \E a \in Fleet : AGVLockAndTest(a) /\ UNCHANGED <<whVars, stVars>>
    \/ \E a \in Fleet : AGVBlock(a) /\ UNCHANGED <<whVars, stVars>>
    \/ \E a \in Fleet : AGVSpuriousWake(a) /\ UNCHANGED <<whVars, stVars>>
    \/ \E a \in Fleet : AGVWake(a) /\ UNCHANGED <<whVars, stVars>>
    \/ \E a \in Fleet : AGVAfterWait(a) /\ UNCHANGED <<whVars, stVars>>
    \/ \E a \in Fleet : AGVPicking(a) /\ UNCHANGED <<whVars, stVars>>
    \/ \E a \in Fleet : AGVToStation(a) /\ UNCHANGED <<whVars, stVars>>
    \/ \E a \in Fleet : AGVDropping(a) /\ UNCHANGED <<whVars, stVars>>
    \/ \E a \in Fleet : AGVComplete(a) /\ UNCHANGED <<whVars, stVars>>
    \/ set_products
    \/ \E p \in OrderProducts : add_order(p, current_sim_time_minutes)
    \/ StationStart
    \/ StationStopFlag
    \/ StationStopNotify
    \/ StationLoopTest
    \/ StationLockAndTest
    \/ StationBlock
    \/ StationSpuriousWake
    \/ StationWake
    \/ StationAfterWait
    \/ StationLookup
    \/ StationReserve
    \/ StationRollback
    \/ StationProbe
    \/ StationAssign
    \/ StationAssembleStart
    \/ StationComplete

Spec == Init /\ [][Next]_vars

\* the cell with its simulation clock: the driver advances the clock (never
\* backwards) and releases orders whose release time has come, an observer
\* thread reads the station statistics; the fleet of two AGVs is the one
\* over which the station was constructed; the first AGV's thread runs, the
\* second one has not been started yet
InitClock == Init /\ agv_fleet = <<1, 2>>

NextClock ==
    \/ \E a \in DirectAGVs : AGVStart(a) /\ UNCHANGED <<whVars, stVars>>
    \/ \E a \in DirectAGVs : AGVLoopTest(a) /\ UNCHANGED <<whVars, stVars>>
    \/ \E a \in DirectAGVs : AGVLockAndTest(a) /\ UNCHANGED <<whVars, stVars>>
    \/ \E a \in DirectAGVs : AGVBlock(a) /\ UNCHANGED <<whVars, stVars>>
    \/ \E a \in DirectAGVs : AGVSpuriousWake(a) /\ UNCHANGED <<whVars, stVars>>
    \/ \E a \in DirectAGVs : AGVWake(a) /\ UNCHANGED <<whVars, stVars>>
    \/ \E a \in DirectAGVs : AGVAfterWait(a) /\ UNCHANGED <<whVars, stVars>>
    \/ \E a \in DirectAGVs : AGVPicking(a) /\ UNCHANGED <<whVars, stVars>>
    \/ \E a \in DirectAGVs : AGVToStation(a) /\ UNCHANGED <<whVars, stVars>>
    \/ \E a \in DirectAGVs : AGVDropping(a) /\ UNCHANGED <<whVars, stVars>>
    \/ \E a \in DirectAGVs : AGVComplete(a) /\ UNCHANGED <<whVars, stVars>>
    \/ set_products
    \/ \E t \in current_sim_time_minutes + 1 .. MaxClock : set_simulation_time(t)
    \/ \E p \in ProductIds, r \in 0..current_sim_time_minutes : add_order(p, r)
    \/ \E g \in Getters : GetterCall(g)
    \/ GetterReturn
    \/ StationStart
    \/ StationLoopTest
    \/ StationLockAndTest
    \/ StationBlock
    \/ StationSpuriousWake
    \/ StationWake
    \/ StationAfterWait
    \/ StationLookup
    \/ StationReserve
    \/ StationProbe
    \/ StationAssign
    \/ StationAssembleStart
    \/ StationComplete

SpecClock == InitClock /\ [][NextClock]_vars

(* -------------------------------- claims ------------------------------ *)

\* C1: reservation atomicity.  Under any interleaving of reserve_components and
\* add_component calls, the total quantity of a component taken by the
\* reservations that returned true never exceeds the quantity added to it, so
\* two reservations that together ask for more than is available never both
\* succeed.
C1_NoOverAllocation ==
    \A c \in ComponentIds : g_reserved[c] <= g_added[c]

\* one reservation is returning true while a second one, which together with it
\* asks for more of a component than was available, waits for the mutex
C1_Witness ==
    \E t1 \in Clients, t2 \in Clients, c \in ComponentIds :
        /\ t1 # t2
        /\ wh_pc[t1] = "unlock" /\ wh_result[t1] = "true"
        /\ wh_pc[t2] = "lock"
        /\ c \in DOMAIN wh_call[t1] /\ c \in DOMAIN wh_call[t2]
        /\ wh_call[t1][c] + wh_call[t2][c] > Get(wh_snap[t1][1], c)

C3_FailedReserveNoEffect ==
    \A t \in Clients :
        wh_pc[t] = "unlock" /\ wh_result[t] = "false" =>
            /\ components = wh_snap[t][1]
            /\ finished_products = wh_snap[t][2]

\* a call fails on "B" although "A", which the loop visits first, was available
C3_Witness ==
    \E t \in Clients :
        /\ wh_pc[t] = "unlock" /\ wh_result[t] = "false"
        /\ DOMAIN wh_call[t] = {"A", "B"}
        /\ ~Short(components, wh_call[t], "A")
        /\ Short(components, wh_call[t], "B")

\* C4: shutdown never leaves a thread parked.  Once a stop() call has returned
\* and running is false, the AGV thread is not in the wait set of task_cv and
\* the station thread is not in the wait set of order_cv.
C4_NoWorkerParkedAfterStop ==
    /\ \A a \in AGVs :
          stop_returned[a] /\ stop_pc[a] = "idle" /\ ~running[a] =>
              ~(agv_pc[a] = "blocked" /\ task_waiting[a])
    /\ st_stop_returned /\ st_stop_pc = "idle" /\ ~st_running =>
          ~(st_pc = "blocked" /\ order_waiting)

\* the transitions of the documented cycle
CycleEdges ==
    {<<"IDLE", "TO_WAREHOUSE">>, <<"TO_WAREHOUSE", "PICKING">>,
     <<"PICKING", "TO_STATION">>, <<"TO_STATION", "DROPPING">>,
     <<"DROPPING", "RETURNING">>, <<"RETURNING", "IDLE">>}

\* C5: AGV state machine.  Every change of an AGV's state is a transition of
\* IDLE -> TO_WAREHOUSE -> PICKING -> TO_STATION -> DROPPING -> RETURNING -> IDLE;
\* in particular DROPPING is left only for RETURNING.
C5_CycleWithReturning ==
    [][\A a \in AGVs :
          state'[a] # state[a] => <<state[a], state'[a]>> \in CycleEdges]_vars

\* C6: the task of an AGV becomes a (new) non-empty task only in a step that
\* starts with the AGV IDLE and without a task; a task that is held, started or
\* not, is never overwritten.
C6_AssignOnlyWhenIdle ==
    [][\A a \in AGVs :
          current_task'[a] # current_task[a] /\ current_task'[a].component_id # "" =>
              state[a] = "IDLE" /\ current_task[a].component_id = ""]_vars

\* an assign_task call was ignored by an AGV that is IDLE but already holds a task
C6_Witness ==
    \E a \in AGVs :
        /\ last_assign[a] = "ignored"
        /\ state[a] = "IDLE"
        /\ current_task[a].component_id # ""

\* every AGV thread of the fleet has been started
FleetStarted == \A a \in Fleet : agv_pc[a] # "not_started"

\* C7: while the station assembles an order (the fleet's threads all started),
\* every AGV it gave a transport task for that order has finished: it is IDLE
\* and holds no task.
C7_AssemblyAfterTransport ==
    st_pc = "assembling" /\ FleetStarted =>
        \A a \in dispatched : state[a] = "IDLE" /\ current_task[a].component_id = ""

\* C8: while the station assembles an order (the fleet's threads all started),
\* a transport task was given to some AGV for every component of the order's
\* bill of materials.
C8_EveryComponentDispatched ==
    st_pc = "assembling" /\ FleetStarted =>
        assigned_components = DOMAIN Catalog[order.product_id].bom

\* C9: single server.  While an order is in the assembly phase, every other
\* order is still queued (or not yet submitted) or has been completed or
\* rejected: no second order is being fetched for or assembled.
C9_SingleServer ==
    \A o1 \in 1..MaxOrders, o2 \in 1..MaxOrders :
        order_phase[o1] = "processing" /\ o1 # o2 =>
            order_phase[o2] \in {"none", "queued", "completed", "rejected"}

\* the second order is assembled after the first one was completed
C9_Witness ==
    \E o1 \in 1..MaxOrders, o2 \in 1..MaxOrders :
        order_phase[o1] = "completed" /\ order_phase[o2] = "processing"

\* C10: an AGV that held a task when stop() cleared running, and whose thread
\* has left AGV::run, holds no task any more (the code has no way to mark a
\* task abandoned, so a task still held is neither completed nor abandoned).
C10_NoTaskLeftAtHalt ==
    \A a \in AGVs :
        agv_pc[a] = "exited" /\ held_at_stop[a] => current_task[a].component_id = ""

\* C16: a reserve_components call is about to return true exactly when
\* has_components reported true for the inventory the call found under the
\* mutex; on true every requested component has lost exactly the requested
\* quantity, no entry was created or removed, the other components and the
\* finished products are unchanged.
C16_ReserveExact ==
    \A t \in Clients :
        wh_pc[t] = "unlock" =>
            /\ (wh_result[t] = "true") = has_components(wh_snap[t][1], wh_call[t])
            /\ wh_result[t] = "true" =>
                  /\ DOMAIN components = DOMAIN wh_snap[t][1]
                  /\ \A c \in DOMAIN components :
                        components[c] = wh_snap[t][1][c] - Get(wh_call[t], c)
                  /\ finished_products = wh_snap[t][2]

\* a call for all of "A" and nothing of "B" returns true: "A" drops to 0 and
\* "B" keeps its quantity
C16_Witness ==
    \E t \in Clients :
        /\ wh_pc[t] = "unlock" /\ wh_result[t] = "true"
        /\ DOMAIN wh_call[t] = {"A"}
        /\ wh_call[t]["A"] = Get(wh_snap[t][1], "A")
        /\ Get(components, "A") = 0
        /\ Get(components, "B") > 0

\* C17: under fair scheduling a task held by a started, running AGV leads to
\* the AGV being IDLE with the task cleared (or to stop() having cleared
\* running); the step that clears a task adds exactly one to total_operations
\* and enters IDLE, and total_operations changes in no other step.
C17_TaskLiveness ==
    /\ \A a \in DirectAGVs :
          (agv_pc[a] # "not_started" /\ running[a] /\ current_task[a].component_id # "")
             ~> (~running[a] \/ (state[a] = "IDLE" /\ current_task[a].component_id = ""))
    /\ [][\A a \in DirectAGVs :
             /\ (current_task[a].component_id # "" /\ current_task'[a].component_id = "")
                   => /\ total_operations'[a] = total_operations[a] + 1
                      /\ state'[a] = "IDLE"
             /\ total_operations'[a] # total_operations[a]
                   => (current_task[a].component_id # "" /\ current_task'[a].component_id = "")
         ]_vars

\* an AGV that was parked in the wait when its task arrived has completed it
\* and is still running
C17_Witness ==
    \E a \in DirectAGVs :
        /\ running[a] /\ stop_pc[a] = "idle" /\ ~stop_returned[a]
        /\ total_operations[a] = 1
        /\ state[a] = "IDLE" /\ current_task[a].component_id = ""
        /\ agv_pc[a] = "blocked"

\* C19: whenever an AGV is IDLE with no task, busy_time_minutes equals
\* total_operations times the full cycle duration: the four legs (2 + 1 + 3 + 1)
\* plus the duration R >= 1 of the RETURNING leg.  No R above busy_time_minutes
\* can satisfy the equation once an operation was counted, so the range of R
\* loses no case.
C19_BusyTimeFullCycle ==
    \A a \in DirectAGVs :
        is_idle(a) =>
            \E R \in 1..(busy_time_minutes[a] + 1) :
                busy_time_minutes[a] =
                    total_operations[a]
                      * (travel_time_warehouse_minutes + picking_time_minutes
                         + travel_time_station_minutes + dropping_time_minutes + R)

\* the station thread is between two orders: no order is in its hands
BetweenOrders ==
    st_pc \in {"not_started", "loop", "lock", "cv_block", "blocked", "woken", "exited"}

\* the sum of f[x] over the elements x of S
RECURSIVE SumOver(_, _)
SumOver(f, S) ==
    IF S = {} THEN 0
    ELSE LET x == CHOOSE y \in S : TRUE IN f[x] + SumOver(f, S \ {x})

\* the program state an observer of the station and the warehouse can read
Observable ==
    <<order_queue, total_busy_time_minutes, orders_completed, components,
      finished_products>>

\* C12: the step in which reserve_components fails for the order in hand either
\* puts the order back into the queue or changes some observable state (a
\* failure mark); the order is not dropped without a trace.
C12_FailedReserveLeavesRecord ==
    [][(/\ st_pc = "reserve" /\ st_pc' # "reserve"
        /\ ~reserve_components(components, Catalog[order.product_id].bom).ok)
          => \/ \E i \in 1..Len(order_queue') : order_queue'[i].id = order.id
             \/ Observable' # Observable]_vars

\* C13: the step that looks up a product that is not in the catalog (or looks
\* it up while no catalog is set) rejects the order and changes no statistic,
\* no warehouse quantity and no AGV task; an order enters "completed" only from
\* the station's hands and only with a known product.
C13_UnknownProductRejected ==
    [][/\ (st_pc = "request" /\ st_pc' # "request" /\ ~ProductKnown(order.product_id))
            => /\ st_pc' = "loop"
               /\ order_phase'[order.id] = "rejected"
               /\ UNCHANGED <<orders_completed, total_busy_time_minutes, components,
                              finished_products, current_task>>
       /\ \A k \in 1..MaxOrders :
            (order_phase'[k] \in {"processing", "completed"} /\ order_phase'[k] # order_phase[k])
                => order.id = k /\ ProductKnown(order.product_id)
      ]_vars

\* an order was rejected although the fleet exists and the stock was never
\* touched, which leaves the product lookup as the only cause; nothing was
\* counted or consumed
C13_Witness ==
    /\ agv_fleet # <<>>
    /\ BetweenOrders
    /\ \E k \in 1..MaxOrders : order_phase[k] = "rejected"
    /\ orders_completed = 0 /\ total_busy_time_minutes = 0
    /\ components = InitialStock
    /\ products = "catalog"

\* C15: between orders the station's busy time is the sum over the completed
\* orders (counted per product by the finished products) of base assembly time
\* plus setup time; rejected orders add nothing.
C15_StationBusyTime ==
    BetweenOrders =>
        total_busy_time_minutes =
            SumOver([p \in DOMAIN finished_products |->
                        finished_products[p]
                          * (Catalog[p].base_assembly_time_minutes + setup_time_minutes)],
                    DOMAIN finished_products)

\* one completed order of P1 (base 20, setup 5) and one rejected order: 25 minutes
C15_Witness ==
    /\ BetweenOrders
    /\ orders_completed = 1
    /\ Get(finished_products, "P1") = 1
    /\ \E k \in 1..MaxOrders : order_phase[k] = "rejected"
    /\ total_busy_time_minutes = 25

\* C18: between orders, what the station has taken out of the warehouse is,
\* for every component, the BOM quantity summed over the completed orders only.
C18_InventoryConservation ==
    BetweenOrders =>
        \A c \in ComponentIds :
            InitialStock[c] - Get(components, c) =
                SumOver([p \in DOMAIN finished_products |->
                            finished_products[p] * Get(Catalog[p].bom, c)],
                        DOMAIN finished_products)

\* C20: when the station thread leaves process_orders, no accepted order is
\* still in the queue.
C20_QueueEmptyAtExit ==
    [][(st_pc' = "exited" /\ st_pc # "exited") => order_queue' = <<>>]_vars

\* the statistic the station thread's next step writes (line 65 after
\* wait_for_components, line 71 after the assembly sleep), "none" otherwise
StationWrites ==
    IF st_pc = "wait_components" THEN "total_busy_time_minutes"
    ELSE IF st_pc = "assembling" THEN "orders_completed"
    ELSE "none"

\* the statistic the observer thread's next step reads
ObserverReads ==
    IF mon_pc = "get_total_busy_time" THEN "total_busy_time_minutes"
    ELSE IF mon_pc = "get_orders_completed" THEN "orders_completed"
    ELSE "none"

\* the mutexes of the station held by its thread and by the observer
StationHolds == IF queue_mutex = "station" THEN {"queue_mutex"} ELSE {}
ObserverHolds == {}

\* C11: no state has the station thread about to write a statistic while the
\* observer thread is about to read the same statistic unless both hold a
\* common mutex (the statistics are plain ints, not atomics).
C11_NoUnprotectedAccess ==
    (StationWrites # "none" /\ StationWrites = ObserverReads)
        => StationHolds \cap ObserverHolds # {}

\* C14: the Order last marked complete has completion_time_minutes >=
\* release_time_minutes + base_assembly_time_minutes + setup_time_minutes, under
\* a clock that never goes back and orders added at or after their release time.
C14_CompletionAfterRelease ==
    completed_order.id # 0 =>
        completed_order.completion_time_minutes >=
            completed_order.release_time_minutes
              + Catalog[completed_order.product_id].base_assembly_time_minutes
              + setup_time_minutes

\* an order released at minute 1 was added, and the clock moved on before the
\* order was marked complete: completion lies beyond release + operation time
C14_Witness ==
    /\ completed_order.id # 0
    /\ completed_order.release_time_minutes = 1
    /\ completed_order.completion_time_minutes >
          1 + Catalog[completed_order.product_id].base_assembly_time_minutes
            + setup_time_minutes
    /\ orders_completed >= 1

====
